---- MODULE Spec2Model ----
(***************************************************************************)
(* Model of the mqtt-pipeline middleware engine: Pipeline (add_middleware, *)
(* build_middleware_stack, process, process_core), the base Middleware,    *)
(* the MeshtasticMiddleware decode stage, the TlonFormatMiddleware format  *)
(* stage, the RestPutMiddleware delivery stage with its retry loop, and    *)
(* the start_bridge message loop.                                          *)
(*                                                                         *)
(* A process call is followed frame by frame: pos is the position in the   *)
(* composed chain of the handler that runs next, data is the value that    *)
(* handler receives.  An exception unwinds every frame of the chain at     *)
(* once, because no stage and not process itself has an except clause.     *)
(***************************************************************************)
EXTENDS Integers, Sequences, FiniteSets, TLC

\* ------------------------------------------------------------------ bounds
MaxStages == 2          \* longest list of registered stage classes
MaxRetries == 2         \* largest configured "retries"
MaxPayloadId == 2       \* cap of the process-wide PAYLOAD_ID counter
NumThreads == 2         \* threads of the concurrent format-stage runs
MaxCalls == 2           \* process calls made on the pipeline

\* ------------------------------------------------------------- the values
StageClasses ==
    {"Middleware", "MeshtasticMiddleware", "TlonFormatMiddleware",
     "RestPutMiddleware"}

MappedTopic == "sensors/temp"
UnmappedTopic == "other/topic"
Topics == {MappedTopic, UnmappedTopic}

\* a payload is either a well-formed ServiceEnvelope or bytes the protobuf
\* parser rejects
Payloads == {"wellformed", "malformed"}

Message(t, p) == [kind |-> "message", topic |-> t, payload |-> p]
Messages == {Message(t, p) : t \in Topics, p \in Payloads}

\* the paho client object, which on_message receives as first argument
Client == [kind |-> "client"]
Userdata == [kind |-> "userdata"]
NoneValue == [kind |-> "None"]

HasAttr(d, a) == a \in DOMAIN d

\* dict.get(key) is None when the key is absent
HasKey(dict, key) == key \in DOMAIN dict

\* -------------------------------------------------------- configuration
ChannelMap == [t \in {MappedTopic} |-> [nest |-> "chat/~zod/temp"]]

TlonSlice == [urbit_id |-> "~zod", urbit_channel_map |-> ChannelMap]

RestSlices ==
    {[host |-> "http://sink", path |-> "put", retry_delay |-> 1,
      headers |-> "application/json", timeout |-> 10,
      retries |-> k] : k \in 0..MaxRetries}
    \cup {[host |-> "http://sink", path |-> "put", retry_delay |-> 1,
           headers |-> "application/json", timeout |-> 10]}

Configs ==
    {[mqtt_topic |-> "data/sensor", TlonFormatMiddleware |-> TlonSlice,
      RestPutMiddleware |-> r] : r \in RestSlices}

\* Middleware.__init__: the slice of the global config keyed by class name
MiddlewareConfig(cfg, name) == cfg[name]

\* ---------------------------------------------------------- the builder
RECURSIVE Reversed(_)
Reversed(s) ==
    IF s = <<>> THEN <<>> ELSE Append(Reversed(Tail(s)), Head(s))

\* handler = middleware_class(get_response=handler, ...): the new handler
\* runs first and its get_response is the chain built so far
Wrap(middleware_class, handler) == <<middleware_class>> \o handler

RECURSIVE WrapAll(_, _)
WrapAll(classes, handler) ==
    IF classes = <<>> THEN handler
    ELSE WrapAll(Tail(classes), Wrap(Head(classes), handler))

build_unreversed(classes) == WrapAll(classes, <<"process_core">>)

\* the chain as the sequence of its handlers, outermost first; the
\* get_response of the handler at position i is the chain from i+1 on
build(classes) == WrapAll(Reversed(classes), <<"process_core">>)


\* ------------------------------------------------------------ the state
VARIABLES
    middleware_classes,  \* Pipeline.middleware_classes
    middleware_stack,    \* Pipeline.middleware_stack (None until built)
    config,              \* Pipeline.config
    built_from,          \* the classes the stack in place was built from
    uuids,               \* how many values uuid.uuid4() has returned
    PAYLOAD_ID,          \* the module global of tlon_format.py
    payload_id_defined,  \* whether that global has been initialised
    pc,                  \* "idle", or where the running process call is
    caller,              \* who called process: "direct" or "bridge"
    pos,                 \* position in middleware_stack of the next handler
    data,                \* the value that handler is called with
    raw,                 \* the first argument of the running process call
    args,                \* its further positional arguments
    trace,               \* the handlers invoked by this call, in order
    forwards,            \* the values passed to get_response, in order
    last,                \* how the last process call ended
    result,              \* the value the last process call returned
    exc,                 \* the exception the last process call raised
    sink_calls,          \* session.put calls made during this process call
    sink_log,            \* what they sent and how the sink answered, in order
    kwargs,              \* the keyword arguments of the running call
    attempt,             \* loop variable of send_to_rest_endpoint
    attempts,            \* session.put calls made by this delivery
    sleeps,              \* time.sleep calls made by this delivery
    outcome,             \* terminal outcome of this delivery
    events,              \* what this delivery did, in order
    bridge,              \* start_bridge: "not_started", "looping", "stopped"
    connack,             \* what _on_connect has seen: "none", 0 or a refusal
    stop_cause,          \* why start_bridge returned
    t_pc,                \* per thread: where its tlon_format call is
    t_msg,               \* per thread: the message it formats
    t_reg,               \* per thread: the value it loaded from PAYLOAD_ID
    t_id,                \* per thread: the "id" of the payload it built
    first                \* the earlier of two process calls being compared

pipeVars ==
    <<middleware_classes, middleware_stack, config, built_from, uuids>>
counterVars == <<PAYLOAD_ID, payload_id_defined>>
callVars ==
    <<pc, caller, pos, data, raw, args, trace, forwards, last, result, exc,
      sink_calls, sink_log, kwargs>>
deliveryVars == <<attempt, attempts, sleeps, outcome, events>>
bridgeVars == <<bridge, connack, stop_cause>>
threadVars == <<t_pc, t_msg, t_reg, t_id>>
vars ==
    <<pipeVars, counterVars, callVars, deliveryVars, bridgeVars, threadVars,
      first>>

Threads == 1..NumThreads

None == <<>>

\* keyword arguments a caller can pass: none, or a request_id of its own
EmptyKwargs == [k \in {} |-> 0]
CallerKwargs == {EmptyKwargs} \cup {[request_id |-> i] : i \in 1..MaxCalls}

\* no earlier call has been set aside for comparison
NoRun == [ran |-> FALSE]

\* Pipeline.__init__, and the module tlon_format as imported: PAYLOAD_ID is
\* declared global there but assigned nowhere in the repository, so it is
\* defined only if the embedding program has set it
Init ==
    /\ middleware_classes = <<>>
    /\ middleware_stack = None
    /\ config \in Configs
    /\ built_from = <<>>
    /\ uuids = 0
    /\ payload_id_defined \in BOOLEAN
    /\ PAYLOAD_ID = 0
    /\ pc = "idle"
    /\ caller = "direct"
    /\ pos = 0
    /\ data = NoneValue
    /\ raw = NoneValue
    /\ args = <<>>
    /\ trace = <<>>
    /\ forwards = <<>>
    /\ last = "none"
    /\ result = NoneValue
    /\ exc = "none"
    /\ sink_calls = 0
    /\ sink_log = <<>>
    /\ kwargs = EmptyKwargs
    /\ attempt = 0
    /\ attempts = 0
    /\ sleeps = 0
    /\ outcome = "none"
    /\ events = <<>>
    /\ bridge = "not_started"
    /\ connack = "none"
    /\ stop_cause = "none"
    /\ t_pc = [t \in Threads |-> "start"]
    /\ t_msg = [t \in Threads |-> NoneValue]
    /\ t_reg = [t \in Threads |-> 0]
    /\ t_id = [t \in Threads |-> 0]
    /\ first = NoRun

\* the thread that owns the pipeline is free: no process call is running
\* and it is not blocked inside start_bridge's loop_forever
AppThreadFree == pc = "idle" /\ bridge # "looping"

\* --------------------------------------------------------------- Pipeline
add_middleware_invalidates ==
    /\ UNCHANGED <<threadVars, first>>
    /\ AppThreadFree
    /\ Len(middleware_classes) < MaxStages
    /\ \E middleware_class \in StageClasses :
           middleware_classes' = Append(middleware_classes, middleware_class)
    /\ middleware_stack' = None
    /\ UNCHANGED <<config, built_from, uuids>>
    /\ UNCHANGED <<counterVars, callVars, deliveryVars, bridgeVars>>

add_middleware ==
    /\ UNCHANGED <<threadVars, first>>
    /\ AppThreadFree
    /\ Len(middleware_classes) < MaxStages
    /\ \E middleware_class \in StageClasses :
           middleware_classes' = Append(middleware_classes, middleware_class)
    /\ UNCHANGED <<middleware_stack, config, built_from, uuids>>
    /\ UNCHANGED <<counterVars, callVars, deliveryVars, bridgeVars>>

build_middleware_stack_unreversed ==
    /\ UNCHANGED <<threadVars, first>>
    /\ AppThreadFree
    /\ middleware_stack' = build_unreversed(middleware_classes)
    /\ built_from' = middleware_classes
    /\ UNCHANGED <<middleware_classes, config, uuids>>
    /\ UNCHANGED <<counterVars, callVars, deliveryVars, bridgeVars>>

build_middleware_stack ==
    /\ UNCHANGED <<threadVars, first>>
    /\ AppThreadFree
    /\ middleware_stack' = build(middleware_classes)
    /\ built_from' = middleware_classes
    /\ UNCHANGED <<middleware_classes, config, uuids>>
    /\ UNCHANGED <<counterVars, callVars, deliveryVars, bridgeVars>>

needs_build_always(stack) == TRUE

\* process: "if self.middleware_stack is None"
needs_build(stack) == stack = None

\* uuid.uuid4(): a value it has not returned before, named by its place
\* among the values drawn
uuid4(drawn) == drawn + 1

request_context_setdefault(kw, request_id, cfg) ==
    [k \in DOMAIN kw \cup {"request_id", "pipeline_config"} |->
        IF k \in DOMAIN kw THEN kw[k]
        ELSE IF k = "request_id" THEN request_id
        ELSE cfg]

\* kwargs['request_id'] = request_id; kwargs['pipeline_config'] = self.config
request_context(kw, request_id, cfg) ==
    [k \in DOMAIN kw \cup {"request_id", "pipeline_config"} |->
        IF k = "request_id" THEN request_id
        ELSE IF k = "pipeline_config" THEN cfg
        ELSE kw[k]]

\* process up to the call of self.middleware_stack(data, ...)
ProcessEnter(d, rest, kw, who) ==
    /\ pc = "idle"
    /\ PAYLOAD_ID < MaxPayloadId
    /\ uuids < MaxCalls
    /\ uuids' = uuid4(uuids)
    /\ kwargs' = request_context(kw, uuids', config)
    /\ IF needs_build(middleware_stack)
       THEN /\ middleware_stack' = build(middleware_classes)
            /\ built_from' = middleware_classes
       ELSE UNCHANGED <<middleware_stack, built_from>>
    /\ pc' = "stage"
    /\ caller' = who
    /\ pos' = 1
    /\ data' = d
    /\ raw' = d
    /\ args' = rest
    /\ trace' = <<>>
    /\ forwards' = <<>>
    /\ last' = "none"
    /\ result' = NoneValue
    /\ exc' = "none"
    /\ sink_calls' = 0
    /\ sink_log' = <<>>
    /\ attempt' = 0
    /\ attempts' = 0
    /\ sleeps' = 0
    /\ outcome' = "none"
    /\ events' = <<>>
    /\ UNCHANGED <<middleware_classes, config, counterVars>>

\* a caller that hands process one inbound message, with or without
\* keyword arguments of its own; the program calls process itself before it
\* hands the thread to start_bridge
process ==
    /\ UNCHANGED <<threadVars, first>>
    /\ bridge = "not_started"
    /\ \E m \in Messages, kw \in CallerKwargs :
           ProcessEnter(m, <<>>, kw, "direct")
    /\ UNCHANGED bridgeVars

\* an exception leaves every frame of the chain and process itself; thrown
\* into paho's loop_forever it ends start_bridge's try block in the
\* "except Exception" branch, which logs and disconnects
Raise(e) ==
    /\ pc' = "idle"
    /\ last' = "raised"
    /\ exc' = e
    /\ IF caller = "bridge"
       THEN /\ bridge' = "stopped"
            /\ stop_cause' = "exception"
            /\ UNCHANGED connack
       ELSE UNCHANGED bridgeVars
    /\ UNCHANGED <<caller, pos, data, raw, args, forwards, result, kwargs>>

\* the handler at pos is invoked with data and the keyword arguments
Invoked(cls) ==
    /\ pc = "stage"
    /\ middleware_stack[pos] = cls
    /\ trace' = Append(trace, [stage |-> cls, received |-> data,
                               context |-> kwargs])

\* self.get_response(v, *args, **kwargs)
GetResponse(v) ==
    /\ pc' = "stage"
    /\ pos' = pos + 1
    /\ data' = v
    /\ forwards' = Append(forwards, v)
    /\ UNCHANGED <<caller, raw, args, last, result, exc, bridgeVars>>

process_core_returns_none ==
    /\ UNCHANGED <<threadVars, first>>
    /\ Invoked("process_core")
    /\ pc' = "idle"
    /\ last' = "returned"
    /\ result' = NoneValue
    /\ UNCHANGED <<caller, pos, data, raw, args, forwards, exc, sink_calls,
                   sink_log, kwargs>>
    /\ UNCHANGED <<pipeVars, counterVars, deliveryVars, bridgeVars>>

\* process_core returns its data; every stage returns its get_response's
\* value, so that is what process returns
process_core ==
    /\ UNCHANGED <<threadVars, first>>
    /\ Invoked("process_core")
    /\ pc' = "idle"
    /\ last' = "returned"
    /\ result' = data
    /\ UNCHANGED <<caller, pos, data, raw, args, forwards, exc, sink_calls,
                   sink_log, kwargs>>
    /\ UNCHANGED <<pipeVars, counterVars, deliveryVars, bridgeVars>>

\* ------------------------------------------------------- base Middleware
MiddlewareCall ==
    /\ UNCHANGED <<threadVars, first>>
    /\ Invoked("Middleware")
    /\ GetResponse(data)
    /\ UNCHANGED <<sink_calls, sink_log, kwargs>>
    /\ UNCHANGED <<pipeVars, counterVars, deliveryVars>>


\* -------------------------------------------------- MeshtasticMiddleware
\* parse: "data.topic" is read before envelope is bound, inside the outer
\* try; when it fails the handler logs and "return envelope" finds no
\* such local
parse_error(d) ==
    IF HasAttr(d, "topic") THEN "none" ELSE "UnboundLocalError"

\* ParseFromString fills the envelope, or raises and is caught and logged,
\* which leaves the envelope as constructed; the envelope is returned
\* either way
parse(d) ==
    IF HasAttr(d, "payload") /\ d.payload = "wellformed"
    THEN [kind |-> "envelope", packet |-> "decoded"]
    ELSE [kind |-> "envelope", packet |-> "empty"]

MeshtasticCall ==
    /\ UNCHANGED <<threadVars, first>>
    /\ Invoked("MeshtasticMiddleware")
    /\ IF parse_error(data) # "none"
       THEN Raise(parse_error(data))
       ELSE GetResponse(parse(data))
    /\ UNCHANGED <<sink_calls, sink_log, kwargs>>
    /\ UNCHANGED <<pipeVars, counterVars, deliveryVars>>

\* -------------------------------------------------- TlonFormatMiddleware
\* str.replace("~", "") on the configured ship name
StripSig(urbit_id) == IF urbit_id = "~zod" THEN "zod" ELSE urbit_id

tlon_never_increments(d, defined) == FALSE

tlon_increments_when_mapped(d, defined) ==
    /\ HasAttr(d, "topic") /\ HasAttr(d, "payload") /\ defined
    /\ d.topic = MappedTopic

\* whether tlon_format reaches and executes PAYLOAD_ID += 1
tlon_increments(d, defined) ==
    HasAttr(d, "topic") /\ HasAttr(d, "payload") /\ defined

\* the exception tlon_format raises, in the order its statements run
tlon_format_error(cfg, d, defined) ==
    IF ~HasAttr(d, "topic") \/ ~HasAttr(d, "payload") THEN "AttributeError"
    ELSE IF ~defined THEN "NameError"
    ELSE IF ~HasKey(cfg, "urbit_id") THEN "AttributeError"
    ELSE IF ~HasKey(cfg, "urbit_channel_map") THEN "TypeError"
    ELSE IF d.topic \notin DOMAIN cfg.urbit_channel_map THEN "KeyError"
    ELSE "none"

\* the poke action tlon_format returns ("sent", a clock reading, left out)
tlon_format(cfg, d, id) ==
    [kind |-> "urbit_payload",
     id |-> id,
     ship |-> StripSig(cfg.urbit_id),
     nest |-> IF d.topic \in DOMAIN cfg.urbit_channel_map
              THEN cfg.urbit_channel_map[d.topic].nest ELSE "none",
     author |-> cfg.urbit_id,
     message |-> d.payload,
     signature |-> d.topic]

WithKey(dict, key, value) ==
    [k \in DOMAIN dict \cup {key} |-> IF k = key THEN value ELSE dict[k]]

tlon_call_assigns_only_override(kw, cfg_all, d) ==
    LET cfg == MiddlewareConfig(cfg_all, "TlonFormatMiddleware")
    IN  [kwargs |-> [path_override |-> cfg.urbit_channel_map[d.topic]],
         config |-> cfg_all]

tlon_call_assigns_config(kw, cfg_all, d) ==
    LET cfg == MiddlewareConfig(cfg_all, "TlonFormatMiddleware")
    IN  [kwargs |-> kw,
         config |-> [cfg_all EXCEPT !.TlonFormatMiddleware =
                        WithKey(cfg, "path_override",
                                cfg.urbit_channel_map[d.topic])]]

\* what __call__ assigns to after tlon_format has returned: the key
\* path_override of its kwargs, and nothing in the configuration
tlon_call_assigns(kw, cfg_all, d) ==
    LET cfg == MiddlewareConfig(cfg_all, "TlonFormatMiddleware")
    IN  [kwargs |-> WithKey(kw, "path_override",
                            cfg.urbit_channel_map[d.topic]),
         config |-> cfg_all]

\* kwargs["path_override"] = ...get("urbit_channel_map")[data.topic], the
\* second lookup of the topic, made by __call__ after tlon_format returned
path_override_error(cfg, d) ==
    IF d.topic \notin DOMAIN cfg.urbit_channel_map THEN "KeyError" ELSE "none"

\* the exception __call__ ends with, if any
call_error(cfg, d, defined) ==
    IF tlon_format_error(cfg, d, defined) # "none"
    THEN tlon_format_error(cfg, d, defined)
    ELSE path_override_error(cfg, d)

TlonFormatCall_forwards_unmapped ==
    /\ UNCHANGED <<threadVars, first>>
    /\ Invoked("TlonFormatMiddleware")
    /\ LET cfg == MiddlewareConfig(config, "TlonFormatMiddleware")
           e == call_error(cfg, data, payload_id_defined)
       IN  /\ PAYLOAD_ID' =
                  IF tlon_increments(data, payload_id_defined)
                  THEN PAYLOAD_ID + 1 ELSE PAYLOAD_ID
           /\ IF e = "KeyError"
              THEN /\ GetResponse(tlon_format(cfg, data, PAYLOAD_ID'))
                   /\ UNCHANGED <<kwargs, config>>
              ELSE IF e # "none"
              THEN /\ Raise(e)
                   /\ UNCHANGED config
              ELSE /\ GetResponse(tlon_format(cfg, data, PAYLOAD_ID'))
                   /\ kwargs' = tlon_call_assigns(kwargs, config, data).kwargs
                   /\ config' = tlon_call_assigns(kwargs, config, data).config
    /\ UNCHANGED <<sink_calls, sink_log, payload_id_defined>>
    /\ UNCHANGED <<middleware_classes, middleware_stack, built_from, uuids>>
    /\ UNCHANGED deliveryVars

TlonFormatCall ==
    /\ UNCHANGED <<threadVars, first>>
    /\ Invoked("TlonFormatMiddleware")
    /\ LET cfg == MiddlewareConfig(config, "TlonFormatMiddleware")
           e == call_error(cfg, data, payload_id_defined)
       IN  /\ PAYLOAD_ID' =
                  IF tlon_increments(data, payload_id_defined)
                  THEN PAYLOAD_ID + 1 ELSE PAYLOAD_ID
           /\ IF e # "none"
              THEN /\ Raise(e)
                   /\ UNCHANGED config
              ELSE /\ GetResponse(tlon_format(cfg, data, PAYLOAD_ID'))
                   /\ kwargs' = tlon_call_assigns(kwargs, config, data).kwargs
                   /\ config' = tlon_call_assigns(kwargs, config, data).config
    /\ UNCHANGED <<sink_calls, sink_log, payload_id_defined>>
    /\ UNCHANGED <<middleware_classes, middleware_stack, built_from, uuids>>
    /\ UNCHANGED deliveryVars


\* ----------------------------------------------------- RestPutMiddleware
StatusCodes == {200, 404}

\* what one session.put call can do: answer with a status, raise a
\* requests.exceptions.RequestException (connection error, timeout), or
\* raise anything else
SinkBehaviours ==
    {[kind |-> "response", status_code |-> c] : c \in StatusCodes}
    \cup {[kind |-> "raise", exc |-> "RequestException"],
          [kind |-> "raise", exc |-> "OtherException"]}

Is2xx(status_code) == status_code >= 200 /\ status_code < 300

Disposition(b) ==
    IF b.kind = "response"
    THEN IF Is2xx(b.status_code) THEN "Success" ELSE "Rejected"
    ELSE IF b.exc = "RequestException" THEN "TransportFailure"
    ELSE "Propagates"

Returns_only_on_success(disposition) == disposition = "Success"

\* the "return" that follows the if/else on the status code
Returns(disposition) == disposition \in {"Success", "Rejected"}

InRange_inclusive(i, n) == i <= n

\* "for attempt in range(n)" runs its body for i = 0 .. n-1
InRange(i, n) == i < n

ShouldSleep_always(i, n) == i < n

\* "if attempt < config.get('retries') - 1"
ShouldSleep(i, n) == i < n - 1

Log(level, msg) == [ev |-> "log", level |-> level, msg |-> msg]

\* the loop is left without a return: the final error is logged and
\* send_to_rest_endpoint returns None
Exhausted(evs) ==
    /\ events' = Append(evs, Log("error", "failed after retries attempts"))
    /\ outcome' = "Exhausted"
    /\ pc' = "rest_return"

\* RestPutMiddleware.__call__ up to the first loop test of
\* send_to_rest_endpoint; range(None) raises TypeError
RestPutCall ==
    /\ UNCHANGED <<threadVars, first>>
    /\ Invoked("RestPutMiddleware")
    /\ attempts' = 0
    /\ sleeps' = 0
    /\ attempt' = 0
    /\ LET cfg == MiddlewareConfig(config, "RestPutMiddleware")
       IN  IF ~HasKey(cfg, "retries")
           THEN /\ Raise("TypeError")
                /\ outcome' = "Raised"
                /\ events' = <<>>
           ELSE /\ IF InRange(0, cfg.retries)
                   THEN /\ pc' = "attempt"
                        /\ outcome' = "none"
                        /\ events' = <<>>
                   ELSE Exhausted(<<>>)
                /\ UNCHANGED <<caller, pos, data, raw, args, forwards, last,
                               result, exc, kwargs, bridgeVars>>
    /\ UNCHANGED <<sink_calls, sink_log>>
    /\ UNCHANGED <<pipeVars, counterVars>>

endpoint_url_host_only(cfg) == <<cfg.host>>

\* f"{config.get('host')}/{config.get('path')}"
endpoint_url(cfg) == <<cfg.host, "/", cfg.path>>

\* one pass through the try block: session.put and what follows it
SessionPut ==
    /\ UNCHANGED <<threadVars, first>>
    /\ pc = "attempt"
    /\ attempts' = attempts + 1
    /\ sink_calls' = sink_calls + 1
    /\ \E b \in SinkBehaviours :
         LET d == Disposition(b)
             cfg == MiddlewareConfig(config, "RestPutMiddleware")
             sent == events \o <<Log("info", "Sending data to endpoint"),
                                 [ev |-> "put", url |-> endpoint_url(cfg),
                                  body |-> data, headers |-> cfg.headers,
                                  timeout |-> cfg.timeout, response |-> b,
                                  got |-> d]>>
         IN  /\ sink_log' = Append(sink_log, [body |-> data, response |-> b])
             /\ IF d = "Propagates"
                THEN /\ Raise(b.exc)
                     /\ outcome' = "Raised"
                     /\ events' = sent
                ELSE /\ IF Returns(d)
                        THEN /\ outcome' = d
                             /\ pc' = "rest_return"
                        ELSE /\ outcome' = "none"
                             /\ pc' = "failed"
                     /\ events' =
                            Append(sent,
                                   CASE d = "Success" ->
                                          Log("info", "Successfully sent")
                                     [] d = "Rejected" ->
                                          Log("warning", "Failed to send")
                                     [] OTHER ->
                                          Log("error", "Failed to send data"))
                     /\ UNCHANGED <<caller, pos, data, raw, args, forwards, last,
                                    result, exc, kwargs, bridgeVars>>
    /\ UNCHANGED <<attempt, sleeps, trace>>
    /\ UNCHANGED <<pipeVars, counterVars>>

\* after a caught RequestException: the retry delay, then the next loop
\* test
RetryOrGiveUp ==
    /\ UNCHANGED <<threadVars, first>>
    /\ pc = "failed"
    /\ LET n == MiddlewareConfig(config, "RestPutMiddleware").retries
           slept == IF ShouldSleep(attempt, n)
                    THEN events \o <<Log("info", "Retrying"), [ev |-> "sleep"]>>
                    ELSE events
       IN  /\ sleeps' = IF ShouldSleep(attempt, n) THEN sleeps + 1 ELSE sleeps
           /\ attempt' = attempt + 1
           /\ IF InRange(attempt + 1, n)
              THEN /\ pc' = "attempt"
                   /\ events' = slept
                   /\ UNCHANGED outcome
              ELSE Exhausted(slept)
    /\ UNCHANGED <<caller, pos, data, raw, args, trace, forwards, last, result,
                   exc, sink_calls, sink_log, kwargs, attempts>>
    /\ UNCHANGED <<pipeVars, counterVars, bridgeVars>>

RestPutReturn_forwards_body ==
    /\ UNCHANGED <<threadVars, first>>
    /\ pc = "rest_return"
    /\ GetResponse(data)
    /\ UNCHANGED <<trace, sink_calls, sink_log, kwargs>>
    /\ UNCHANGED <<pipeVars, counterVars, deliveryVars>>

\* send_to_rest_endpoint has returned None, which __call__ hands on
RestPutReturn ==
    /\ UNCHANGED <<threadVars, first>>
    /\ pc = "rest_return"
    /\ GetResponse(NoneValue)
    /\ UNCHANGED <<trace, sink_calls, sink_log, kwargs>>
    /\ UNCHANGED <<pipeVars, counterVars, deliveryVars>>

\* ------------------------------------------------------------ the bridge
\* start_bridge, called by a program that has processed no message itself,
\* up to loop_forever; client.connect may raise, which the
\* "except Exception" branch logs before it disconnects and returns
start_bridge ==
    /\ UNCHANGED <<threadVars, first>>
    /\ AppThreadFree
    /\ bridge = "not_started"
    /\ uuids = 0
    /\ \/ /\ bridge' = "looping"
          /\ UNCHANGED stop_cause
       \/ /\ bridge' = "stopped"
          /\ stop_cause' = "connect_error"
    /\ UNCHANGED connack
    /\ UNCHANGED <<pipeVars, counterVars, callVars, deliveryVars>>

\* _on_connect: subscribes when rc = 0 and only logs otherwise
on_connect ==
    /\ UNCHANGED <<threadVars, first>>
    /\ bridge = "looping"
    /\ pc = "idle"
    /\ connack = "none"
    /\ \E rc \in {0, 5} :
           connack' = IF rc = 0 THEN "subscribed" ELSE "refused"
    /\ UNCHANGED <<bridge, stop_cause>>
    /\ UNCHANGED <<pipeVars, counterVars, callVars, deliveryVars>>

\* client.on_message = pipeline.process: paho calls it as
\* on_message(client, userdata, message)
on_message ==
    /\ UNCHANGED <<threadVars, first>>
    /\ bridge = "looping"
    /\ connack = "subscribed"
    /\ \E m \in Messages :
           ProcessEnter(Client, <<Userdata, m>>, EmptyKwargs, "bridge")
    /\ UNCHANGED bridgeVars

KeyboardInterrupt ==
    /\ UNCHANGED <<threadVars, first>>
    /\ bridge = "looping"
    /\ pc = "idle"
    /\ bridge' = "stopped"
    /\ stop_cause' = "interrupt"
    /\ UNCHANGED connack
    /\ UNCHANGED <<pipeVars, counterVars, callVars, deliveryVars>>

Next ==
    \/ add_middleware
    \/ build_middleware_stack
    \/ process
    \/ process_core
    \/ MiddlewareCall
    \/ MeshtasticCall
    \/ TlonFormatCall
    \/ RestPutCall
    \/ SessionPut
    \/ RetryOrGiveUp
    \/ RestPutReturn
    \/ start_bridge
    \/ on_connect
    \/ on_message
    \/ KeyboardInterrupt

Spec == Init /\ [][Next]_vars


\* ------------------------------------- tlon_format on concurrent threads
\* Threads that run the format stage at the same time share the module
\* global PAYLOAD_ID.  "PAYLOAD_ID += 1" is a load, an add and a store,
\* and the "id" entry of the payload is a further load; the interpreter
\* may switch threads between any two of them, and no lock is taken.
tlon_format_begin(t) ==
    /\ UNCHANGED <<pipeVars, payload_id_defined, callVars, deliveryVars,
                   bridgeVars, first>>
    /\ t_pc[t] = "start"
    /\ \E m \in Messages : t_msg' = [t_msg EXCEPT ![t] = m]
    /\ t_pc' = [t_pc EXCEPT ![t] = "load"]
    /\ UNCHANGED <<t_reg, t_id, PAYLOAD_ID>>

load_PAYLOAD_ID(t) ==
    /\ UNCHANGED <<pipeVars, payload_id_defined, callVars, deliveryVars,
                   bridgeVars, first>>
    /\ t_pc[t] = "load"
    /\ IF payload_id_defined
       THEN /\ t_reg' = [t_reg EXCEPT ![t] = PAYLOAD_ID]
            /\ t_pc' = [t_pc EXCEPT ![t] = "store"]
       ELSE /\ t_pc' = [t_pc EXCEPT ![t] = "raised"]
            /\ UNCHANGED t_reg
    /\ UNCHANGED <<t_msg, t_id, PAYLOAD_ID>>

store_PAYLOAD_ID(t) ==
    /\ UNCHANGED <<pipeVars, payload_id_defined, callVars, deliveryVars,
                   bridgeVars, first>>
    /\ t_pc[t] = "store"
    /\ PAYLOAD_ID' = t_reg[t] + 1
    /\ t_pc' = [t_pc EXCEPT ![t] = "build"]
    /\ UNCHANGED <<t_msg, t_reg, t_id>>

build_urbit_payload(t) ==
    /\ UNCHANGED <<pipeVars, payload_id_defined, callVars, deliveryVars,
                   bridgeVars, first>>
    /\ t_pc[t] = "build"
    /\ LET cfg == MiddlewareConfig(config, "TlonFormatMiddleware")
       IN  IF tlon_format_error(cfg, t_msg[t], TRUE) # "none"
           THEN /\ t_pc' = [t_pc EXCEPT ![t] = "raised"]
                /\ UNCHANGED t_id
           ELSE /\ t_id' = [t_id EXCEPT
                              ![t] = tlon_format(cfg, t_msg[t], PAYLOAD_ID).id]
                /\ t_pc' = [t_pc EXCEPT ![t] = "done"]
    /\ UNCHANGED <<t_msg, t_reg, PAYLOAD_ID>>

NextThreads ==
    \/ \E t \in Threads : tlon_format_begin(t)
    \/ \E t \in Threads : load_PAYLOAD_ID(t)
    \/ \E t \in Threads : store_PAYLOAD_ID(t)
    \/ \E t \in Threads : build_urbit_payload(t)

SpecThreads == Init /\ [][NextThreads]_vars

\* ------------------------------------------------- the program keeps going
\* a step of a process call in progress: the interpreter runs it without
\* waiting for anything outside the program
ChainStep ==
    \/ process_core
    \/ MiddlewareCall
    \/ MeshtasticCall
    \/ TlonFormatCall
    \/ RestPutCall
    \/ SessionPut
    \/ RetryOrGiveUp
    \/ RestPutReturn

\* a call that has begun runs to its end; whether a caller calls, a message
\* arrives, the broker answers or the user interrupts is left open
SpecLive == Spec /\ WF_vars(ChainStep)

\* ------------------------ the same message through a chain built twice
\* the stage list is complete before the first message is processed
register_stage ==
    /\ uuids = 0
    /\ add_middleware

\* the first process call, which builds the chain
first_process ==
    /\ uuids = 0
    /\ process

\* the caller builds the chain again from the same stage list, as a second
\* Pipeline constructed alike would on its first call
rebuild ==
    /\ uuids = 1
    /\ first = NoRun
    /\ build_middleware_stack

\* the message of the first call is processed again; what the first call
\* did is set aside
process_again ==
    /\ UNCHANGED threadVars
    /\ uuids = 1
    /\ first = NoRun
    /\ first' = [ran |-> TRUE, raw |-> raw, trace |-> trace, last |-> last,
                 result |-> result, exc |-> exc, sink_log |-> sink_log]
    /\ ProcessEnter(raw, <<>>, EmptyKwargs, "direct")
    /\ UNCHANGED bridgeVars

\* session.put on a sink that answers its n-th call of the second run as it
\* answered the n-th call of the first
SessionPutSameSink ==
    /\ SessionPut
    /\ (first.ran /\ Len(sink_log') <= Len(first.sink_log)) =>
           sink_log'[Len(sink_log')].response =
               first.sink_log[Len(sink_log')].response

NextRebuild ==
    \/ register_stage
    \/ first_process
    \/ rebuild
    \/ process_again
    \/ process_core
    \/ MiddlewareCall
    \/ MeshtasticCall
    \/ TlonFormatCall
    \/ RestPutCall
    \/ SessionPutSameSink
    \/ RetryOrGiveUp
    \/ RestPutReturn

SpecRebuild == Init /\ [][NextRebuild]_vars


\* ================================================================ claims
RestConfig == MiddlewareConfig(config, "RestPutMiddleware")
TlonConfig == MiddlewareConfig(config, "TlonFormatMiddleware")

IsPut(e) == e.ev = "put"
Puts == SelectSeq(events, IsPut)

\* the inbound message of the running (or last) process call
InboundMessage == IF caller = "bridge" THEN args[2] ELSE raw

\* C1: every handler invocation of a process call follows the declared
\* order: the i-th handler invoked is the i-th registered stage class (the
\* core handler after the last stage of the chain), and it receives the raw
\* first argument of process when i = 1 and otherwise the value the
\* (i-1)-th handler passed to its get_response.
C1_DeclaredOrder ==
    [][(trace' # trace /\ trace' # <<>>) =>
          LET i == Len(trace')
              e == trace'[i]
          IN  /\ e.stage = IF i < Len(middleware_stack)
                           THEN middleware_classes[i] ELSE "process_core"
              /\ i <= Len(middleware_classes) + 1
              /\ e.received = IF i = 1 THEN raw ELSE forwards[i - 1]]_vars

C1_Witness ==
    /\ Len(trace) = 3
    /\ trace[1].stage = "MeshtasticMiddleware"
    /\ trace[2].stage = "RestPutMiddleware"
    /\ trace[3].stage = "process_core"
    /\ trace[2].received.kind = "envelope"
    /\ trace[3].received = NoneValue

\* C2: with retries = k >= 1 a delivery never makes more than k attempts;
\* every attempt but the last one made met a transport failure; k-1
\* transport failures followed by a 2xx response are exactly k attempts
\* with outcome Success; and the outcome is Exhausted-Retries exactly when
\* k attempts were made and all of them met a transport failure.
C2_BoundedRetry ==
    (HasKey(RestConfig, "retries") /\ RestConfig.retries >= 1) =>
        LET k == RestConfig.retries
        IN  /\ attempts <= k
            /\ Len(Puts) = attempts
            /\ \A i \in 1..(Len(Puts) - 1) : Puts[i].got = "TransportFailure"
            /\ (pc \in {"attempt", "failed"} => outcome = "none")
            /\ (pc = "attempt" => attempts < k)
            /\ (Len(Puts) = k /\ Puts[k].got = "Success"
                    => outcome = "Success")
            /\ (outcome = "Exhausted"
                    <=> /\ attempts = k
                        /\ pc # "failed"
                        /\ \A i \in 1..k : Puts[i].got = "TransportFailure")

C2_Witness ==
    /\ HasKey(RestConfig, "retries")
    /\ RestConfig.retries >= 2
    /\ attempts = RestConfig.retries
    /\ outcome = "Success"

\* C3: a non-2xx response ends the delivery as Rejected: it is the last
\* attempt, and no sleep and no further attempt follow it.
C3_RejectedNotRetried ==
    \A i \in 1..Len(events) :
        (IsPut(events[i]) /\ events[i].got = "Rejected") =>
            /\ outcome = "Rejected"
            /\ pc \notin {"attempt", "failed"}
            /\ \A j \in (i + 1)..Len(events) :
                   events[j].ev \notin {"put", "sleep"}

C3_Witness ==
    /\ outcome = "Rejected"
    /\ attempts = 1
    /\ HasKey(RestConfig, "retries")
    /\ RestConfig.retries >= 2

IsSleep(e) == e.ev = "sleep"

\* C4: every sleep follows a transport failure and is followed by another
\* attempt; a delivery that has ended after a >= 1 attempts has slept
\* exactly a-1 times.
C4_SleepOnlyBetweenAttempts ==
    /\ Len(SelectSeq(events, IsSleep)) = sleeps
    /\ \A i \in 1..Len(events) :
           IsSleep(events[i]) =>
               /\ \E j \in 1..(i - 1) :
                      /\ IsPut(events[j])
                      /\ events[j].got = "TransportFailure"
                      /\ \A h \in (j + 1)..(i - 1) : events[h].ev = "log"
               /\ \/ \E j \in (i + 1)..Len(events) : IsPut(events[j])
                  \/ pc = "attempt"
    /\ (pc = "attempt" => sleeps = attempts)
    /\ (outcome # "none" /\ attempts >= 1 => sleeps = attempts - 1)

C4_Witness ==
    /\ outcome = "Exhausted"
    /\ attempts >= 2
    /\ sleeps = attempts - 1

\* C5: send_to_rest_endpoint never raises: every delivery ends with one of
\* the outcomes Success, Rejected, Exhausted-Retries.  Stated here for the
\* configurations that hold a "retries" count, where the claim fails
\* already; without the key the delivery raises at its first loop test.
C5_DeliveryNeverRaises ==
    HasKey(RestConfig, "retries") => outcome # "Raised"

\* C6: no process call ends by raising.  Stated for a process call on an
\* inbound message with a complete configuration and an initialised
\* PAYLOAD_ID, where the claim fails already.
C6_ProcessNeverRaises ==
    (/\ raw \in Messages
     /\ payload_id_defined
     /\ HasKey(RestConfig, "retries")) => last # "raised"

FormatBeforeDelivery(stack) ==
    \E i \in 1..Len(stack) :
        /\ stack[i] = "TlonFormatMiddleware"
        /\ \A j \in 1..(i - 1) : stack[j] # "RestPutMiddleware"

Unmapped(m) ==
    /\ HasAttr(m, "topic")
    /\ ~HasKey(TlonConfig, "urbit_channel_map")
           \/ m.topic \notin DOMAIN TlonConfig.urbit_channel_map

\* C7: while and after a message with an unmapped topic is processed by a
\* chain whose format stage precedes its delivery stage, the sink has not
\* been called.
C7_UnmappedNeverDelivered ==
    (/\ raw # NoneValue
     /\ Unmapped(InboundMessage)
     /\ middleware_stack # None
     /\ FormatBeforeDelivery(middleware_stack)) => sink_calls = 0

C7_Witness ==
    /\ raw \in Messages
    /\ Unmapped(raw)
    /\ middleware_stack =
           <<"TlonFormatMiddleware", "RestPutMiddleware", "process_core">>
    /\ Len(trace) = 1
    /\ last = "raised"
    /\ exc = "KeyError"
    /\ sink_calls = 0

\* C8: a message the bridge hands to the pipeline that is malformed or has
\* an unmapped topic does not end the bridge's message loop: start_bridge
\* does not return because handling that message raised.
C8_LoopSurvivesMessages ==
    (/\ caller = "bridge"
     /\ Unmapped(InboundMessage) \/ InboundMessage.payload = "malformed")
        => stop_cause # "exception"

\* C9: a decode stage that is handed a malformed payload does not invoke
\* its next handler, so nothing after it in the chain runs and the sink is
\* not called.
C9_DecodeFailureShortCircuits ==
    \A i \in 1..Len(trace) :
        (/\ trace[i].stage = "MeshtasticMiddleware"
         /\ HasAttr(trace[i].received, "payload")
         /\ trace[i].received.payload = "malformed") =>
            /\ Len(forwards) < i
            /\ Len(trace) = i
            /\ sink_calls = 0

\* C10: the ids of the payloads built by concurrently running threads are
\* pairwise distinct.
C10_DistinctIds ==
    \A a, b \in Threads :
        (a # b /\ t_pc[a] = "done" /\ t_pc[b] = "done") => t_id[a] # t_id[b]

IsUrbitPayload(v) == v.kind = "urbit_payload"

\* C11: PAYLOAD_ID is one counter shared by every stage instance and it
\* never decreases; a payload the format stage hands on carries the value
\* the counter has just been raised to, which is greater than the counter
\* was before and so greater than the id of every payload produced before.
C11_MonotonicIds ==
    [][/\ PAYLOAD_ID' >= PAYLOAD_ID
       /\ \A i \in 1..Len(forwards') :
              IsUrbitPayload(forwards'[i]) => forwards'[i].id <= PAYLOAD_ID'
       /\ (/\ Len(trace') = Len(trace) + 1
           /\ trace'[Len(trace')].stage = "TlonFormatMiddleware"
           /\ Len(forwards') = Len(forwards) + 1) =>
              /\ IsUrbitPayload(forwards'[Len(forwards')])
              /\ forwards'[Len(forwards')].id = PAYLOAD_ID'
              /\ PAYLOAD_ID' > PAYLOAD_ID]_vars

C11_Witness ==
    /\ PAYLOAD_ID = 2
    /\ Len(trace) >= 1
    /\ trace[Len(trace)].stage = "TlonFormatMiddleware"
    /\ Len(forwards) = Len(trace)
    /\ IsUrbitPayload(forwards[Len(forwards)])
    /\ forwards[Len(forwards)].id = 2

ProcessEnters == pc = "idle" /\ pc' # "idle"

\* C12: the chain is built lazily and once: a new pipeline has no chain and
\* registering a stage does not build one; a process call builds the chain
\* when there is none and otherwise leaves the one in place, as does every
\* step inside a process call; a chain once built is never taken away, so
\* process builds at most once however many messages follow.
C12_BuiltLazilyOnce ==
    /\ middleware_stack = None
    /\ [][/\ (middleware_classes' # middleware_classes) =>
                 UNCHANGED <<middleware_stack, built_from>>
          /\ (ProcessEnters /\ middleware_stack = None) =>
                 /\ middleware_stack' = build(middleware_classes)
                 /\ built_from' = middleware_classes
          /\ (ProcessEnters /\ middleware_stack # None) =>
                 UNCHANGED <<middleware_stack, built_from>>
          /\ (pc # "idle") => UNCHANGED <<middleware_stack, built_from>>
          /\ (middleware_stack # None) => middleware_stack' # None]_vars

\* a second message has gone through the chain that was in place, although
\* a stage has been registered since it was built
C12_Witness ==
    /\ middleware_stack # None
    /\ built_from # middleware_classes
    /\ middleware_stack = build(built_from)
    /\ PAYLOAD_ID = 2
    /\ last = "returned"

ChainOf(classes) == classes \o <<"process_core">>

\* C13: registering a stage while a built chain is in place leaves that
\* chain as it is, and a process call on a built chain does not rebuild it:
\* the handlers a call invokes are, one by one and in order, the classes
\* that were registered when the chain was built, and a call that returns
\* has invoked all of them and the core, whatever has been registered
\* since.
C13_LateAddHasNoEffect ==
    [][/\ (middleware_classes' # middleware_classes) =>
              UNCHANGED <<middleware_stack, built_from>>
       /\ (ProcessEnters /\ middleware_stack # None) =>
              UNCHANGED <<middleware_stack, built_from>>
       /\ (Len(trace') = Len(trace) + 1) =>
              /\ Len(trace') <= Len(built_from) + 1
              /\ trace'[Len(trace')].stage = ChainOf(built_from)[Len(trace')]
       /\ (pc # "idle" /\ pc' = "idle" /\ last' = "returned") =>
              Len(trace') = Len(built_from) + 1]_vars

\* a call is running the chain built from fewer classes than are registered
\* by now
C13_Witness ==
    /\ pc = "stage"
    /\ Len(trace) = Len(built_from)
    /\ Len(built_from) >= 1
    /\ Len(middleware_classes) > Len(built_from)

\* C14: every process call draws a new uuid4 value, so its request_id
\* differs from that of every earlier call, puts it and the pipeline's
\* configuration into the keyword arguments in place of whatever the caller
\* passed under those names, and starts the composed handler at its first
\* position; request_id and pipeline_config stay as set while the chain
\* runs, no other step draws a uuid, and a call that returns hands back
\* what the composed handler returned.
C14_FreshContext ==
    [][/\ ProcessEnters =>
              /\ uuids' = uuids + 1
              /\ kwargs'.request_id = uuids'
              /\ kwargs'.request_id \notin 1..uuids
              /\ kwargs'.pipeline_config = config
              /\ pos' = 1
              /\ trace' = <<>>
       /\ ~ProcessEnters =>
              /\ uuids' = uuids
              /\ kwargs # EmptyKwargs =>
                     /\ kwargs'.request_id = kwargs.request_id
                     /\ kwargs'.pipeline_config = kwargs.pipeline_config
       /\ (pc # "idle" /\ pc' = "idle" /\ last' = "returned") =>
              /\ trace'[Len(trace')].stage = "process_core"
              /\ result' = trace'[Len(trace')].received]_vars

\* the second call runs under the second request_id
C14_Witness ==
    /\ uuids = 2
    /\ kwargs.request_id = 2
    /\ kwargs.pipeline_config = config
    /\ pc = "stage"
    /\ Len(trace) >= 1

CallEnds == pc # "idle" /\ pc' = "idle"

FormatThenDeliver ==
    <<"TlonFormatMiddleware", "RestPutMiddleware", "process_core">>

\* the sink answered the first session.put of the call with status 200
FirstPutGets200(evs) ==
    LET puts == SelectSeq(evs, IsPut)
    IN  puts # <<>> =>
            /\ puts[1].response.kind = "response"
            /\ puts[1].response.status_code = 200

\* C15: when a process call on a message with a mapped topic ends, on the
\* chain of the format stage followed by the delivery stage, with a
\* delivery configuration that allows an attempt and a sink that answers
\* 200 first, then process has returned a Success result, the sink was
\* called exactly once, and the request carried the message's payload and
\* the destination its topic is mapped to.
C15_EndToEnd ==
    [][(/\ CallEnds
        /\ caller = "direct"
        /\ middleware_stack = FormatThenDeliver
        /\ raw \in Messages
        /\ raw.topic = MappedTopic
        /\ HasKey(RestConfig, "retries")
        /\ RestConfig.retries >= 1
        /\ FirstPutGets200(events')) =>
           /\ last' = "returned"
           /\ result'.kind = "Success"
           /\ sink_calls' = 1
           /\ LET put == SelectSeq(events', IsPut)[1]
              IN  /\ put.body.message = raw.payload
                  /\ put.body.nest = ChannelMap[raw.topic].nest]_vars

\* what the code does in that scenario once the embedding program has
\* initialised PAYLOAD_ID: the delivery succeeds and is only logged, process
\* returns None, and the request goes to the configured host and path
EndToEnd_Delivered ==
    [][(/\ CallEnds
        /\ payload_id_defined
        /\ caller = "direct"
        /\ middleware_stack = FormatThenDeliver
        /\ raw \in Messages
        /\ raw.topic = MappedTopic
        /\ HasKey(RestConfig, "retries")
        /\ RestConfig.retries >= 1
        /\ FirstPutGets200(events')) =>
           /\ last' = "returned"
           /\ result' = NoneValue
           /\ outcome' = "Success"
           /\ sink_calls' = 1
           /\ LET put == SelectSeq(events', IsPut)[1]
              IN  /\ put.body.message = raw.payload
                  /\ put.body.nest = ChannelMap[raw.topic].nest
                  /\ put.url = endpoint_url(RestConfig)]_vars

\* C16: a missing key of a stage is found when the chain is built, so on a
\* built chain no process call fails for want of one: no call ends, inside
\* the delivery stage, in the TypeError that range(config.get("retries"))
\* raises when that stage's slice has no "retries".
C16_ConfigErrorsAtBuildTime ==
    (/\ last = "raised"
     /\ exc = "TypeError"
     /\ trace # <<>>
     /\ trace[Len(trace)].stage = "RestPutMiddleware") =>
        HasKey(RestConfig, "retries")

SansId(v) == IF IsUrbitPayload(v) THEN [v EXCEPT !.id = 0] ELSE v

StageNames(tr) == [i \in 1..Len(tr) |-> tr[i].stage]

Received(tr) == [i \in 1..Len(tr) |-> tr[i].received]

Responses(puts) == [i \in 1..Len(puts) |-> puts[i].response]

Bodies(puts) == [i \in 1..Len(puts) |-> puts[i].body]

\* both calls on the same message have ended and the sink answered the
\* second as it answered the first
BothRunsEnded ==
    /\ first.ran
    /\ pc = "idle"
    /\ last # "none"
    /\ Responses(sink_log) = Responses(first.sink_log)

C18_ConfigNotMutated ==
    [][/\ config' = config
       /\ \A name \in {"TlonFormatMiddleware", "RestPutMiddleware"} :
              MiddlewareConfig(config', name) = MiddlewareConfig(config, name)
       /\ (pc' # "idle") => kwargs'.pipeline_config = config]_vars

\* a call has gone through the format stage, which set path_override, and
\* the delivery stage, and the configuration is one of the initial ones
C18_Witness ==
    /\ last = "returned"
    /\ HasKey(kwargs, "path_override")
    /\ sink_calls >= 1
    /\ ~HasKey(TlonConfig, "path_override")
    /\ config \in Configs

FinalError == Log("error", "failed after retries attempts")

TerminalLogs ==
    {Log("info", "Successfully sent"), Log("warning", "Failed to send"),
     FinalError}

IsTerminalLog(e) == e \in TerminalLogs

GotResponse(e) == IsPut(e) /\ e.response.kind = "response"

\* the level at which an outcome is to be logged
LevelOf(o) ==
    CASE o = "Success" -> "info"
      [] o = "Rejected" -> "warning"
      [] OTHER -> "error"

\* one terminal record, at the level of the outcome, and the final error
\* exactly when no attempt got an HTTP response
TerminalLogShowsOutcome ==
    /\ Len(SelectSeq(events, IsTerminalLog)) = 1
    /\ SelectSeq(events, IsTerminalLog)[1].level = LevelOf(outcome)
    /\ (\E i \in 1..Len(events) : events[i] = FinalError)
           <=> SelectSeq(events, GotResponse) = <<>>

\* C19: every delivery that has ended, however it ended, has logged exactly
\* one terminal record, at the level of its outcome, and has logged the
\* final "failed after N attempts" error if and only if none of its
\* attempts received an HTTP response.
C19_OneTerminalLog == outcome # "none" => TerminalLogShowsOutcome

\* the same for the deliveries that ended in one of the three outcomes
ReturnedDeliveryLogsOutcome ==
    outcome \in {"Success", "Rejected", "Exhausted"} =>
        TerminalLogShowsOutcome

PassThrough(tr) ==
    \A i \in 1..Len(tr) : tr[i].stage \in {"Middleware", "process_core"}

\* C20: a process call through a chain of nothing but base Middleware
\* stages and the core never raises, and it returns exactly the data it was
\* given: every handler, the core included, received that data unchanged.
\* In any chain a base Middleware stage hands its next handler exactly what
\* it received, once.
C20_CoreIsIdentity ==
    /\ (last = "returned" /\ PassThrough(trace)) =>
           /\ trace[Len(trace)].stage = "process_core"
           /\ result = raw
           /\ \A i \in 1..Len(trace) : trace[i].received = raw
           /\ Len(forwards) = Len(trace) - 1
    /\ (last = "raised") => ~PassThrough(trace)
    /\ \A i \in 1..Len(trace) :
           trace[i].stage = "Middleware" =>
               /\ Len(forwards) >= i
               /\ forwards[i] = trace[i].received

\* a message has gone through two base Middleware stages and the core
C20_Witness ==
    /\ last = "returned"
    /\ raw \in Messages
    /\ Len(trace) = 3
    /\ PassThrough(trace)
    /\ result = raw

\* C21: for a message the bridge hands to the pipeline, the value the first
\* handler of the chain receives as its data is that inbound message, with
\* its topic and payload.
C21_FirstStageGetsMessage ==
    (caller = "bridge" /\ trace # <<>>) =>
        /\ trace[1].received = InboundMessage
        /\ HasAttr(trace[1].received, "topic")
        /\ HasAttr(trace[1].received, "payload")

\* the part of that hand-over the code does keep: one on_message is one
\* process call, entered with the client first and the message last
OneCallPerMessage ==
    [][(caller' = "bridge" /\ ProcessEnters) =>
           /\ uuids' = uuids + 1
           /\ raw' = Client
           /\ args'[2] \in Messages]_vars

\* C22: once the broker has refused the connection the bridge does not stay
\* in its message loop: start_bridge comes to an end.
C22_RefusalEndsLoop == (connack = "refused") ~> (bridge = "stopped")

\* the part of the claim the code keeps: whatever is raised inside the try
\* block, by client.connect or out of loop_forever, and the user's
\* interrupt end start_bridge by a return
BridgeCatchesInsideTry ==
    /\ stop_cause # "none" <=> bridge = "stopped"
    /\ (caller = "bridge" /\ last = "raised") => stop_cause = "exception"

ContextKeys == {"request_id", "pipeline_config"}

\* the stage classes invoked before the i-th handler of the running call
InvokedBefore(i) == {trace[j].stage : j \in 1..(i - 1)}

\* C23: every handler invoked in one process call, the core included, is
\* given the request_id that process drew for this call and the pipeline's
\* configuration as pipeline_config; no entry a handler was given is missing
\* for the next one, and the only entry ever added is path_override, by a
\* format stage that ran before.
C23_ContextThreaded ==
    \A i \in 1..Len(trace) :
        /\ ContextKeys \subseteq DOMAIN trace[i].context
        /\ trace[i].context.request_id = uuids
        /\ trace[i].context.pipeline_config = config
        /\ DOMAIN trace[i].context \subseteq ContextKeys \cup {"path_override"}
        /\ HasKey(trace[i].context, "path_override") <=>
               "TlonFormatMiddleware" \in InvokedBefore(i)
        /\ i > 1 => DOMAIN trace[i - 1].context \subseteq DOMAIN trace[i].context

\* the second call has gone through the format stage, the delivery stage
\* and the core, which were given its request_id
C23_Witness ==
    /\ last = "returned"
    /\ uuids = 2
    /\ StageNames(trace) = FormatThenDeliver
    /\ trace[3].context.request_id = 2
    /\ HasKey(trace[3].context, "path_override")
    /\ ~HasKey(trace[1].context, "path_override")

TerminalOutcomes == {"Success", "Rejected", "Exhausted"}

IsDelivery(i) == trace[i].stage = "RestPutMiddleware"

\* the delivery stage invoked last in the running call
LastDelivery ==
    CHOOSE i \in 1..Len(trace) :
        IsDelivery(i) /\ \A j \in (i + 1)..Len(trace) : ~IsDelivery(j)

\* C24: a delivery stage whose send_to_rest_endpoint has returned, with
\* Success, Rejected or Exhausted, calls its next handler, once, with None:
\* the handler after it receives None whatever the outcome was, and a call
\* that went through a delivery stage and returned has the result None.
C24_DeliveryAlwaysForwards ==
    /\ pc = "rest_return" => outcome \in TerminalOutcomes
    /\ \A i \in 1..Len(trace) :
           (IsDelivery(i) /\ i < Len(trace)) =>
               /\ forwards[i] = NoneValue
               /\ trace[i + 1].received = NoneValue
    /\ (/\ \E i \in 1..Len(trace) : IsDelivery(i)
        /\ outcome \in TerminalOutcomes
        /\ pc # "rest_return") =>
           /\ Len(forwards) >= LastDelivery
           /\ forwards[LastDelivery] = NoneValue
           /\ Len(trace) > LastDelivery \/ pc = "stage"
    /\ (last = "returned" /\ \E i \in 1..Len(trace) : IsDelivery(i)) =>
           result = NoneValue

\* a delivery that was rejected has been followed by the core, which
\* returned None
C24_Witness ==
    /\ last = "returned"
    /\ outcome = "Rejected"
    /\ Len(trace) >= 2
    /\ IsDelivery(Len(trace) - 1)
    /\ raw \in Messages
    /\ result = NoneValue

\* C25: every session.put of a delivery, whichever attempt it is and
\* whatever the message, sends the body the stage was handed, unchanged, to
\* host/path of the stage's own slice, with the slice's headers and
\* timeout; a path_override in the context makes no difference.
C25_SameRequestEveryAttempt ==
    \A i \in 1..Len(Puts) :
        /\ Puts[i].url = <<RestConfig.host, "/", RestConfig.path>>
        /\ Puts[i].headers = RestConfig.headers
        /\ Puts[i].timeout = RestConfig.timeout
        /\ Puts[i].body = trace[LastDelivery].received
        /\ Puts[i] \in {[Puts[1] EXCEPT !.response = b, !.got = Disposition(b)] :
                            b \in SinkBehaviours}

\* a payload of the format stage, which put path_override into the context,
\* has been sent a second time after a transport failure
C25_Witness ==
    /\ Len(Puts) = 2
    /\ Puts[1].got = "TransportFailure"
    /\ IsUrbitPayload(Puts[2].body)
    /\ HasKey(kwargs, "path_override")
    /\ Puts[2].url = Puts[1].url

\* a step in which the format stage is invoked
FormatInvoked ==
    /\ Len(trace') = Len(trace) + 1
    /\ trace'[Len(trace')].stage = "TlonFormatMiddleware"

\* C26: an invocation of the format stage on a message raises the initialised
\* counter by exactly one whether or not the topic is in the channel map, so
\* an invocation that ends in the KeyError of an unmapped topic has consumed
\* an id all the same; no invocation raises it by more, and nothing else in
\* the pipeline changes it.
C26_IdConsumedBeforeTopic ==
    [][/\ (/\ FormatInvoked
           /\ HasAttr(data, "topic")
           /\ HasAttr(data, "payload")
           /\ payload_id_defined) => PAYLOAD_ID' = PAYLOAD_ID + 1
       /\ (FormatInvoked /\ exc' = "KeyError" /\ last' = "raised") =>
              /\ Unmapped(data)
              /\ PAYLOAD_ID' = PAYLOAD_ID + 1
       /\ FormatInvoked => PAYLOAD_ID' \in {PAYLOAD_ID, PAYLOAD_ID + 1}
       /\ ~FormatInvoked => PAYLOAD_ID' = PAYLOAD_ID]_vars

\* the second message, of an unmapped topic, has been dropped by the format
\* stage and nothing was sent for it, yet the counter stands at two
C26_Witness ==
    /\ raw \in Messages
    /\ Unmapped(raw)
    /\ middleware_stack =
           <<"TlonFormatMiddleware", "RestPutMiddleware", "process_core">>
    /\ last = "raised"
    /\ exc = "KeyError"
    /\ sink_log = <<>>
    /\ uuids = 2
    /\ PAYLOAD_ID = 2

====
